---- MODULE Spec2Model ----
(***************************************************************************)
(* Emission models of PySM: the modified black body (dust.py), its         *)
(* decorrelated variant with the frequency-decorrelation helpers, and the  *)
(* spinning-dust models (spdust.py).                                       *)
(*                                                                         *)
(* Numbers.  A float is modelled as an extended rational <<n, d>> in       *)
(* lowest terms: d > 0 is the finite value n/d, <<1,0>> and <<-1,0>> are   *)
(* +inf and -inf, <<0,0>> is NaN.  The operations follow IEEE-754 on the   *)
(* special values (x/0, 0/0, inf-inf, 0*inf) and are exact on the finite   *)
(* ones; rounding is not modelled.                                         *)
(*                                                                         *)
(* Arrays.  An array is a record [shape, v]: shape is the numpy shape, v   *)
(* the values as nested sequences indexed by (frequency, channel, pixel),  *)
(* (channel, pixel) or (pixel), 1-based.                                   *)
(***************************************************************************)
EXTENDS Integers, Sequences, FiniteSets, TLC

VARIABLES
    obj,      \* the model instance: a record of its attributes (Python's __dict__) and its class
    heap,     \* array storage: buffer id -> array; attributes and results hold buffer ids
    heap0,    \* the storage as construction left it
    obj0,     \* the instance as construction left it
    ret,      \* the last get_emission call: frequencies, outcome, returned buffer, returned value
    loop,     \* a spinning-dust emission loop in progress, statement by statement
    inv,      \* an invert_safe call in progress
    rng,      \* the state of numpy's process-wide generator behind np.random.randn
    dcall     \* the last call into the decorrelation code and its outcome

vars == <<obj, heap, heap0, obj0, ret, loop, inv, rng, dcall>>

----------------------------------------------------------------------------
(* Bounds of the model *)

NPix == 2
MaxNFreq == 2
MaxDim == 2
MaxEig == 3
MaxLoads == 3
MaxSeed == 1
MaxL == 1

----------------------------------------------------------------------------
(* Extended rationals *)

Abs(n) == IF n < 0 THEN -n ELSE n

Sgn(n) == IF n < 0 THEN -1 ELSE IF n = 0 THEN 0 ELSE 1

RECURSIVE GCD(_, _)
GCD(a, b) == IF b = 0 THEN a ELSE GCD(b, a % b)

Norm(n, d) ==
    IF d = 0 THEN <<Sgn(n), 0>>
    ELSE LET g == GCD(Abs(n), Abs(d))
             s == IF d < 0 THEN -1 ELSE 1
         IN  <<(s * n) \div g, (s * d) \div g>>

Rat(n) == <<n, 1>>
NaN == <<0, 0>>
One == <<1, 1>>
Zero == <<0, 1>>

IsFinite(a) == a[2] # 0
IsNaN(a) == a = NaN

RMul(a, b) == Norm(a[1] * b[1], a[2] * b[2])

RDiv(a, b) == Norm(a[1] * b[2], a[2] * b[1])

RAdd(a, b) ==
    IF a[2] = 0 /\ b[2] = 0
    THEN (IF a = b THEN a ELSE NaN)
    ELSE Norm(a[1] * b[2] + b[1] * a[2], a[2] * b[2])

RNeg(a) == <<-a[1], a[2]>>

RSub(a, b) == RAdd(a, RNeg(b))

\* a < b; false when either is NaN
RLess(a, b) ==
    IF IsNaN(a) \/ IsNaN(b) THEN FALSE
    ELSE IF a[2] = 0 /\ b[2] = 0 THEN a[1] < b[1]
    ELSE IF a[2] = 0 THEN a[1] < 0
    ELSE IF b[2] = 0 THEN b[1] > 0
    ELSE a[1] * b[2] < b[1] * a[2]

RLeq(a, b) == RLess(a, b) \/ (~IsNaN(a) /\ a = b)

\* a ** k for an integer k (np.power: a ** 0 = 1 for every a, NaN included)
RECURSIVE RPow(_, _)
RPow(a, k) ==
    IF k = 0 THEN One
    ELSE IF k < 0 THEN RDiv(One, RPow(a, -k))
    ELSE RMul(a, RPow(a, k - 1))

----------------------------------------------------------------------------
(* Arrays *)

Arr(shape, v) == [shape |-> shape, v |-> v]

\* numpy broadcasting of two shapes (right-aligned); <<>> when they do not broadcast
RECURSIVE Broadcast(_, _)
Broadcast(s, t) ==
    IF Len(s) < Len(t) THEN Broadcast(<<1>> \o s, t)
    ELSE IF Len(t) < Len(s) THEN Broadcast(s, <<1>> \o t)
    ELSE [k \in 1..Len(s) |-> IF s[k] = 1 THEN t[k] ELSE s[k]]

\* the shape of a[None, None, :] and of a[None, ...]
NewAxes2(shape) == <<1, 1>> \o shape
NewAxis(shape) == <<1>> \o shape

----------------------------------------------------------------------------
(* Collaborators outside the two source files *)

\* read_map(path, nside): the map stored under a path, one value per pixel.
\* A path names its content: <<"const", c>>, <<"ramp", k>> (pixel x holds x + k),
\* <<"neg", 0>> (pixel x holds -x), <<"tab", j>> (row j of a fixed table).
Table == << <<3, 4, 0, 5>>, <<4, 3, 5, 0>> >>

read_map(path) ==
    [x \in 1..NPix |->
        CASE path[1] = "const" -> path[2]
          [] path[1] = "ramp" -> x + path[2]
          [] path[1] = "neg" -> -x
          [] path[1] = "tab" -> Table[path[2]][((x - 1) % 4) + 1]]

RatMap(m) == [x \in DOMAIN m |-> Rat(m[x])]

\* read_txt(emissivity, unpack=True): row 1 the scaled frequencies (ascending),
\* row 2 the amplitudes
read_txt(path) ==
    CASE path = "peaked" -> << <<Norm(1, 2), Rat(1), Rat(2)>>, <<Rat(1), Rat(2), Rat(1)>> >>
      [] path = "rising" -> << <<Rat(1), Rat(2)>>, <<Rat(0), Rat(3)>> >>

\* check_freq_input: a 1-D sequence of length >= 1 of positive frequencies, or an error
check_freq_input(freqs) ==
    IF Len(freqs) = 0 \/ \E i \in 1..Len(freqs) : freqs[i] <= 0
    THEN [status |-> "InvalidFrequencyInput", freqs |-> <<>>]
    ELSE [status |-> "ok", freqs |-> freqs]

\* an angle is held as its unit vector <<cos, sin>>; arctan2(0, 0) = 0
Arctan2(u, q) ==
    IF u = 0 /\ q = 0 THEN <<One, Zero>>
    ELSE LET h == CHOOSE k \in 1..(Abs(u) + Abs(q)) : k * k = u * u + q * q
         IN  <<Norm(q, h), Norm(u, h)>>

np_cos(angle) == angle[1]
np_sin(angle) == angle[2]

\* np.interp(x, xp, fp): linear, clamped at both ends
np_interp(x, xp, fp) ==
    LET n == Len(xp) IN
    IF IsNaN(x) THEN NaN
    ELSE IF RLeq(x, xp[1]) THEN fp[1]
    ELSE IF RLeq(xp[n], x) THEN fp[n]
    ELSE LET j == CHOOSE k \in 1..(n - 1) : RLeq(xp[k], x) /\ RLess(x, xp[k + 1])
             slope == RDiv(RSub(fp[j + 1], fp[j]), RSub(xp[j + 1], xp[j]))
         IN  RAdd(RMul(slope, RSub(x, xp[j])), fp[j])

----------------------------------------------------------------------------
(* SED primitives, dust.py *)

\* expm1 by its series to second order: finite and positive for finite x > 0,
\* +inf at +inf, as the floating-point expm1
Expm1(x) == RAdd(x, RDiv(RMul(x, x), Rat(2)))

\* astropy's blackbody_nu in units h = k_B = c = 1:
\* 2 h nu^3 / (c^2 expm1(h nu / (k_B T)))
blackbody_nu(freq, temp) ==
    LET log_boltz == RDiv(freq, temp)
        boltzm1 == Expm1(log_boltz)
    IN  RDiv(RMul(Rat(2), RPow(freq, 3)), boltzm1)

blackbody_ratio(freq_to, freq_from, temp) ==
    RDiv(blackbody_nu(freq_to, temp), blackbody_nu(freq_from, temp))

mbb_sed_unnormalised(freqs_to, freq_from, index, temp) ==
    RMul(RPow(RDiv(freqs_to, freq_from), index - 2), blackbody_nu(freqs_to, temp))

mbb_sed(freqs_to, freq_from, index, temp) ==
    RMul(RPow(RDiv(freqs_to, freq_from), index - 2),
         blackbody_ratio(freqs_to, freq_from, temp))

----------------------------------------------------------------------------
(* ModifiedBlackBody, dust.py.  The name-mangled attributes __iqu_ref,       *)
(* __iqu_ref_freqs, __mbb_index, __mbb_temperature are the fields iqu_ref,  *)
(* iqu_ref_freqs, mbb_index, mbb_temperature; array attributes hold the id  *)
(* of their buffer.                                                         *)

\* [freq_ref_I] + 2 * [freq_ref_P]
IquRefFreqs(freq_ref_I, freq_ref_P) == <<Rat(freq_ref_I), Rat(freq_ref_P), Rat(freq_ref_P)>>

\* __init__ with its parameters bound as the record a: the instance and its storage
ModifiedBlackBodyInit(a) ==
    [obj |-> [class |-> "ModifiedBlackBody",
              mbb_index |-> 2,
              mbb_temperature |-> 3,
              iqu_ref_freqs |-> IquRefFreqs(a.freq_ref_I, a.freq_ref_P),
              iqu_ref |-> 1],
     heap |-> << Arr(<<3, NPix>>, <<RatMap(read_map(a.map_I)),
                                    RatMap(read_map(a.map_Q)),
                                    RatMap(read_map(a.map_U))>>),
                 Arr(<<1, NPix>>, read_map(a.map_mbb_index)),
                 Arr(<<1, NPix>>, RatMap(read_map(a.map_mbb_temperature))) >>]

\* the buffers an instance owns
OwnedIds(o) ==
    CASE o.class = "SpDust" -> 1..3
      [] o.class = "SpDustPol" -> 1..4
      [] OTHER -> 1..3

\* the buffer of a newly allocated array
NewArrayAliased(o) == 1

NewArray(o) == Cardinality(OwnedIds(o)) + 1

\* ModifiedBlackBody.get_emission
MBBGetEmission(o, h, freqs) ==
    LET c == check_freq_input(freqs)
        n == Len(c.freqs)
        index == h[o.mbb_index]
        temp == h[o.mbb_temperature]
        iqu == h[o.iqu_ref]
        ratioShape == Broadcast(<<n, 1, 1>>, <<1, 3, 1>>)
        scalingShape == Broadcast(Broadcast(ratioShape, NewAxes2(index.shape)),
                                  NewAxes2(temp.shape))
        scaling == [i \in 1..n |-> [p \in 1..3 |-> [x \in 1..NPix |->
                       mbb_sed(Rat(c.freqs[i]), o.iqu_ref_freqs[p],
                               index.v[x], temp.v[x])]]]
    IN  IF c.status # "ok" THEN [status |-> c.status, out |-> Arr(<<>>, <<>>)]
        ELSE [status |-> "ok",
              out |-> Arr(Broadcast(scalingShape, NewAxis(iqu.shape)),
                          [i \in 1..n |-> [p \in 1..3 |-> [x \in 1..NPix |->
                              RMul(scaling[i][p][x], iqu.v[p][x])]]])]

----------------------------------------------------------------------------
(* SpDust and SpDustPol, spdust.py *)

SpDustInit(a) ==
    [obj |-> [class |-> "SpDust",
              I_ref |-> 1,
              freq_ref_I |-> Rat(a.freq_ref_I),
              freq_peak |-> 2,
              emissivity |-> 3],
     heap |-> << Arr(<<NPix>>, RatMap(read_map(a.map_I))),
                 Arr(<<NPix>>, [x \in 1..NPix |->
                        RDiv(Rat(read_map(a.freq_peak)[x]), Rat(a.freq_ref_peak))]),
                 Arr(<<2, Len(read_txt(a.emissivity)[1])>>, read_txt(a.emissivity)) >>]

SpDustPolInit(a) ==
    LET base == SpDustInit(a) IN
    [obj |-> [class |-> "SpDustPol",
              I_ref |-> base.obj.I_ref,
              freq_ref_I |-> base.obj.freq_ref_I,
              freq_peak |-> base.obj.freq_peak,
              emissivity |-> base.obj.emissivity,
              pol_angle |-> 4,
              pol_frac |-> Norm(a.pol_frac[1], a.pol_frac[2])],
     heap |-> Append(base.heap,
                     Arr(<<NPix>>, [x \in 1..NPix |->
                            Arctan2(read_map(a.angle_U)[x], read_map(a.angle_Q)[x])]))]

\* compute_spdust_scaling_numba for one pixel's freq_peak
compute_spdust_scaling_unscaled_ref(freq, freq_ref_I, freq_peak, emissivity) ==
    LET scaled_freq == RDiv(freq, freq_peak)
        scaled_ref_freq == freq_ref_I
    IN  RDiv(RMul(RPow(RDiv(freq_ref_I, freq), 2),
                  np_interp(scaled_freq, emissivity[1], emissivity[2])),
             np_interp(scaled_ref_freq, emissivity[1], emissivity[2]))

compute_spdust_scaling_numba(freq, freq_ref_I, freq_peak, emissivity) ==
    LET scaled_freq == RDiv(freq, freq_peak)
        scaled_ref_freq == RDiv(freq_ref_I, freq_peak)
    IN  RDiv(RMul(RPow(RDiv(freq_ref_I, freq), 2),
                  np_interp(scaled_freq, emissivity[1], emissivity[2])),
             np_interp(scaled_ref_freq, emissivity[1], emissivity[2]))

\* the scaling over the pixels of freq_peak
SpdustScaling(o, h, freq) ==
    [x \in 1..NPix |->
        compute_spdust_scaling_numba(Rat(freq), o.freq_ref_I, h[o.freq_peak].v[x],
                                     h[o.emissivity].v)]

\* the content of np.empty: not yet written
Uninit == <<0, -1>>

Npol(class) == IF class = "SpDust" THEN 1 ELSE 3

np_empty(n, npol) == [i \in 1..n |-> [p \in 1..npol |-> [x \in 1..NPix |-> Uninit]]]

\* the number of statements in the body of the loop over frequencies
NStmts(class) == IF class = "SpDust" THEN 1 ELSE 4

\* the rows of outputs that iteration i_freq of n scales in place
ScaleRowsAll(i_freq, n) == 1..n

ScaleRows(i_freq, n) == {i_freq}

ScaleCell(cell, s) == IF cell = Uninit THEN Uninit ELSE RMul(cell, s)

\* statement k of iteration i_freq of the loop of compute_spdust_emission_numba
\* (one statement) or compute_spdust_emission_pol_numba (four), on outputs
LoopStmt(k, outputs, i_freq, o, h, freqs) ==
    LET I_ref == h[o.I_ref].v
        scaling == SpdustScaling(o, h, freqs[i_freq])
    IN  IF o.class = "SpDust"
        THEN [outputs EXCEPT ![i_freq][1] = [x \in 1..NPix |-> RMul(I_ref[x], scaling[x])]]
        ELSE CASE k = 1 -> [outputs EXCEPT ![i_freq][1] = I_ref]
               [] k = 2 -> [outputs EXCEPT ![i_freq][2] = [x \in 1..NPix |->
                               RMul(RMul(I_ref[x], o.pol_frac), np_cos(h[o.pol_angle].v[x]))]]
               [] k = 3 -> [outputs EXCEPT ![i_freq][3] = [x \in 1..NPix |->
                               RMul(RMul(I_ref[x], o.pol_frac), np_sin(h[o.pol_angle].v[x]))]]
               [] k = 4 -> [i \in 1..Len(outputs) |->
                               IF i \in ScaleRows(i_freq, Len(outputs))
                               THEN [p \in 1..3 |-> [x \in 1..NPix |->
                                        ScaleCell(outputs[i][p][x], scaling[x])]]
                               ELSE outputs[i]]

\* the loop run in order, from statement k of iteration i_freq on
RECURSIVE RunLoop(_, _, _, _, _, _)
RunLoop(k, outputs, i_freq, o, h, freqs) ==
    IF i_freq > Len(freqs) THEN outputs
    ELSE IF k > NStmts(o.class) THEN RunLoop(1, outputs, i_freq + 1, o, h, freqs)
    ELSE RunLoop(k + 1, LoopStmt(k, outputs, i_freq, o, h, freqs), i_freq, o, h, freqs)

\* SpDust.get_emission and SpDustPol.get_emission
SpDustGetEmission(o, h, freqs) ==
    LET c == check_freq_input(freqs)
        n == Len(c.freqs)
    IN  IF c.status # "ok" THEN [status |-> c.status, out |-> Arr(<<>>, <<>>)]
        ELSE [status |-> "ok",
              out |-> Arr(<<n, Npol(o.class), h[o.I_ref].shape[1]>>,
                          RunLoop(1, np_empty(n, Npol(o.class)), 1, o, h, c.freqs))]

----------------------------------------------------------------------------
(* Construction arguments *)

\* reference frequencies and requested frequencies, in GHz
RefFreqs == {1, 2}
FreqVals == {0, 1, 2}

MBBArgs ==
    { [map_I |-> <<"ramp", -1>>, map_Q |-> <<"ramp", 0>>, map_U |-> <<"neg", 0>>,
       freq_ref_I |-> fI, freq_ref_P |-> fP,
       map_mbb_index |-> ix, map_mbb_temperature |-> tp] :
      fI \in RefFreqs, fP \in RefFreqs,
      ix \in {<<"const", 2>>, <<"ramp", 0>>},
      tp \in {<<"const", 0>>, <<"const", 2>>, <<"ramp", -1>>} }

SpDustArgs ==
    { [map_I |-> <<"ramp", 0>>, freq_ref_I |-> fI, emissivity |-> e,
       freq_peak |-> fp, freq_ref_peak |-> frp] :
      fI \in RefFreqs, e \in {"peaked", "rising"},
      fp \in {<<"const", 1>>, <<"ramp", 0>>}, frp \in {1, 2} }

SpDustPolArgs ==
    { [map_I |-> a.map_I, freq_ref_I |-> a.freq_ref_I, emissivity |-> a.emissivity,
       freq_peak |-> a.freq_peak, freq_ref_peak |-> a.freq_ref_peak,
       pol_frac |-> <<1, 2>>, angle_Q |-> ang[1], angle_U |-> ang[2]] :
      a \in SpDustArgs,
      ang \in { << <<"tab", 1>>, <<"tab", 2>> >>, << <<"const", 1>>, <<"const", 0>> >> } }

Constructed ==
    {ModifiedBlackBodyInit(a) : a \in MBBArgs}
    \cup {SpDustInit(a) : a \in SpDustArgs}
    \cup {SpDustPolInit(a) : a \in SpDustPolArgs}

\* the frequency arguments of a call, in GHz: sequences of up to MaxNFreq values,
\* a non-positive value and the empty sequence included
FreqLists == UNION {[1..n -> FreqVals] : n \in 0..MaxNFreq}

----------------------------------------------------------------------------
(* get_emission calls on a constructed instance *)

NoCall == [status |-> "none", freqs |-> <<>>, id |-> 0, out |-> Arr(<<>>, <<>>),
           wrote |-> FALSE]

IdleLoop == [pc |-> "idle"]
IdleInv == [pc |-> "idle"]
IdleCall == [op |-> "none"]

Init ==
    /\ \E c \in Constructed : obj = c.obj /\ heap = c.heap
    /\ heap0 = heap
    /\ obj0 = obj
    /\ ret = NoCall
    /\ loop = IdleLoop
    /\ inv = IdleInv
    /\ rng = 0
    /\ dcall = IdleCall

Store(h, id, a) == IF id > Len(h) THEN Append(h, a) ELSE [h EXCEPT ![id] = a]

\* the storage once the caller has let go of the array of its previous call
Released(h, o) == SubSeq(h, 1, Cardinality(OwnedIds(o)))

\* the caller receives the result r of a call with the argument freqs
Return(r, freqs) ==
    LET id == NewArray(obj) IN
    /\ heap' = IF r.status = "ok" THEN Store(Released(heap, obj), id, r.out)
                ELSE Released(heap, obj)
    /\ ret' = [status |-> r.status, freqs |-> freqs,
               id |-> IF r.status = "ok" THEN id ELSE 0,
               out |-> r.out,
               wrote |-> ret.wrote]
    /\ UNCHANGED <<obj, heap0, obj0, loop, inv, rng, dcall>>

ModifiedBlackBody_get_emission ==
    /\ obj.class = "ModifiedBlackBody"
    /\ \E freqs \in FreqLists : Return(MBBGetEmission(obj, heap, freqs), freqs)

SpDust_get_emission ==
    /\ obj.class = "SpDust"
    /\ \E freqs \in FreqLists : Return(SpDustGetEmission(obj, heap, freqs), freqs)

SpDustPol_get_emission ==
    /\ obj.class = "SpDustPol"
    /\ \E freqs \in FreqLists : Return(SpDustGetEmission(obj, heap, freqs), freqs)

\* the caller writes into the array it was given
CallerWrite ==
    /\ ret.status = "ok"
    /\ heap[ret.id] = ret.out
    /\ heap' = [heap EXCEPT ![ret.id].v[1][1][1] = Rat(99)]
    /\ ret' = [ret EXCEPT !.wrote = TRUE]
    /\ UNCHANGED <<obj, heap0, obj0, loop, inv, rng, dcall>>

Next ==
    \/ ModifiedBlackBody_get_emission
    \/ SpDust_get_emission
    \/ SpDustPol_get_emission
    \/ CallerWrite

Spec == Init /\ [][Next]_vars

----------------------------------------------------------------------------
(* Properties of get_emission *)

Returned(class) == ret.status = "ok" /\ obj.class = class

RefRadiance(p, x) == blackbody_nu(obj.iqu_ref_freqs[p], heap[obj.mbb_temperature].v[x])

RefEmissivity(x) ==
    np_interp(RDiv(obj.freq_ref_I, heap[obj.freq_peak].v[x]),
              heap[obj.emissivity].v[1], heap[obj.emissivity].v[2])

\* C2: when a SpDust or SpDustPol call returns, at every requested frequency
\* equal to freq_ref_I and in every pixel whose emissivity interpolated at
\* freq_ref_I / freq_peak is non-zero, the intensity output equals I_ref, and
\* for SpDustPol the Q and U outputs equal I_ref * pol_frac * cos(pol_angle)
\* and I_ref * pol_frac * sin(pol_angle).
C2_SpDustAnchor ==
    (Returned("SpDust") \/ Returned("SpDustPol")) =>
        \A i \in 1..Len(ret.freqs) :
            Rat(ret.freqs[i]) = obj.freq_ref_I =>
                \A x \in 1..NPix :
                    RefEmissivity(x) # Zero =>
                        LET I_ref == heap[obj.I_ref].v[x] IN
                        /\ ret.out.v[i][1][x] = I_ref
                        /\ obj.class = "SpDustPol" =>
                              /\ ret.out.v[i][2][x] =
                                    RMul(RMul(I_ref, obj.pol_frac),
                                         np_cos(heap[obj.pol_angle].v[x]))
                              /\ ret.out.v[i][3][x] =
                                    RMul(RMul(I_ref, obj.pol_frac),
                                         np_sin(heap[obj.pol_angle].v[x]))

C2_Witness ==
    /\ Returned("SpDustPol")
    /\ \E i \in 1..Len(ret.freqs) : \E x \in 1..NPix :
          /\ Rat(ret.freqs[i]) = obj.freq_ref_I
          /\ RefEmissivity(x) # Zero
          /\ heap[obj.freq_peak].v[x] # One
          /\ ret.out.v[i][1][x] = heap[obj.I_ref].v[x]
          /\ ret.out.v[i][2][x] # Zero
          /\ ret.out.v[i][3][x] # Zero
          /\ ret.out.v[i][2][x] # ret.out.v[i][3][x]

\* C4: a SpDust call with nfreq frequencies on a model of npix pixels returns
\* an array of shape (nfreq, 3, npix).
C4_SpDustShape ==
    Returned("SpDust") => ret.out.shape = <<Len(ret.freqs), 3, NPix>>

\* C5: at every point of every sequence of get_emission calls the instance and
\* the arrays it owns are as construction left them, and the array a call
\* returned is none of them, also after the caller has written into a returned
\* array and called again.
C5_Frame ==
    /\ obj = obj0
    /\ \A id \in OwnedIds(obj) : heap[id] = heap0[id]
    /\ ret.status = "ok" => (ret.id \notin OwnedIds(obj) /\ ret.id \in 1..Len(heap))

C5_Witness ==
    /\ ret.wrote
    /\ ret.status = "ok"
    /\ heap[ret.id] = ret.out
    /\ \A id \in OwnedIds(obj) : heap[id] = heap0[id]

----------------------------------------------------------------------------
(* The loop over frequencies of compute_spdust_emission_numba and           *)
(* compute_spdust_emission_pol_numba (both @njit(parallel=True)), run one   *)
(* statement at a time with the iterations in any order and interleaved.    *)

InitLoop ==
    /\ \E c \in {SpDustInit(a) : a \in SpDustArgs} \cup {SpDustPolInit(a) : a \in SpDustPolArgs} :
          obj = c.obj /\ heap = c.heap
    /\ heap0 = heap
    /\ obj0 = obj
    /\ ret = NoCall
    /\ loop = IdleLoop
    /\ inv = IdleInv
    /\ rng = 0
    /\ dcall = IdleCall

\* outputs = np.empty(...), before the first iteration
LoopEnter ==
    /\ loop.pc = "idle"
    /\ \E freqs \in FreqLists :
          /\ check_freq_input(freqs).status = "ok"
          /\ loop' = [pc |-> "running", freqs |-> freqs,
                      outputs |-> np_empty(Len(freqs), Npol(obj.class)),
                      at |-> [i \in 1..Len(freqs) |-> 0],
                      interleaved |-> FALSE]
    /\ UNCHANGED <<obj, heap, heap0, obj0, ret, inv, rng, dcall>>

\* iteration i_freq runs its next statement
LoopStep ==
    /\ loop.pc = "running"
    /\ \E i_freq \in 1..Len(loop.freqs) :
          /\ loop.at[i_freq] < NStmts(obj.class)
          /\ loop' = [loop EXCEPT
                !.outputs = LoopStmt(loop.at[i_freq] + 1, loop.outputs, i_freq,
                                     obj, heap, loop.freqs),
                !.at[i_freq] = loop.at[i_freq] + 1,
                !.interleaved = loop.interleaved \/
                    \E j \in 1..Len(loop.freqs) :
                        j # i_freq /\ loop.at[j] > 0 /\ loop.at[j] < NStmts(obj.class)]
    /\ UNCHANGED <<obj, heap, heap0, obj0, ret, inv, rng, dcall>>

\* return outputs, once every iteration has finished
LoopReturn ==
    /\ loop.pc = "running"
    /\ \A i \in 1..Len(loop.freqs) : loop.at[i] = NStmts(obj.class)
    /\ loop' = [loop EXCEPT !.pc = "returned"]
    /\ UNCHANGED <<obj, heap, heap0, obj0, ret, inv, rng, dcall>>

NextLoop == LoopEnter \/ LoopStep \/ LoopReturn

SpecLoop == InitLoop /\ [][NextLoop]_vars

\* the loop run in order
InOrder == RunLoop(1, np_empty(Len(loop.freqs), Npol(obj.class)), 1, obj, heap, loop.freqs)

RowWritten(row) ==
    \A p \in 1..Len(row) : \A x \in 1..NPix : row[p][x] # Uninit

\* C10: in every interleaving of the per-frequency iterations the slots of a
\* frequency whose iteration has not started are untouched, the slots of a
\* frequency whose iteration has finished are all written and hold what the
\* loop run in order leaves there, and the loop returns only after every
\* iteration has finished.
C10_IterationsIndependent ==
    loop.pc # "idle" =>
        /\ \A i \in 1..Len(loop.freqs) :
              /\ loop.at[i] = 0 => \A p \in 1..Npol(obj.class) : \A x \in 1..NPix :
                                      loop.outputs[i][p][x] = Uninit
              /\ loop.at[i] = NStmts(obj.class) =>
                    (RowWritten(loop.outputs[i]) /\ loop.outputs[i] = InOrder[i])
        /\ loop.pc = "returned" => loop.outputs = InOrder

C10_Witness ==
    /\ loop.pc = "returned"
    /\ obj.class = "SpDustPol"
    /\ loop.interleaved
    /\ Len(loop.freqs) = 2
    /\ loop.freqs[1] # loop.freqs[2]
    /\ loop.outputs[1] # loop.outputs[2]
    /\ loop.outputs = InOrder

----------------------------------------------------------------------------
(* invert_safe, dust.py.  Exact arithmetic: a symmetric matrix is held in   *)
(* its eigenbasis, as the ascending sequence of its eigenvalues, in units   *)
(* of 0.5E-14.  Adding c to every diagonal entry adds c to every            *)
(* eigenvalue and leaves the eigenvectors alone.                            *)

\* 1E-14, in units of 0.5E-14
EpsUnits == 2

Max(a, b) == IF a > b THEN a ELSE b

Spectra ==
    UNION { {w \in [1..n -> -MaxEig..MaxEig] : \A k \in 1..(n - 1) : w[k] <= w[k + 1]} :
            n \in 1..MaxDim }

\* np.linalg.eigh(mb)[0]
eigh(m) == m

\* 2. * np.max([1E-14, -wmin])
LoadAmountOnce(wmin) == Max(EpsUnits, -wmin)

LoadAmount(wmin) == 2 * Max(EpsUnits, -wmin)

InitInvert ==
    /\ obj = [class |-> "none"]
    /\ heap = <<>>
    /\ heap0 = <<>>
    /\ obj0 = obj
    /\ ret = NoCall
    /\ loop = IdleLoop
    /\ inv = IdleInv
    /\ rng = 0
    /\ dcall = IdleCall

\* invert_safe(matrix): mb = matrix.copy(); w_ok = False
InvertEnter ==
    /\ inv.pc = "idle"
    /\ \E m \in Spectra :
          inv' = [pc |-> "loop", matrix0 |-> m, bufs |-> <<m, m>>, matrix |-> 1, mb |-> 2,
                  w |-> <<>>, w_ok |-> FALSE, loads |-> 0, winv |-> <<>>]
    /\ UNCHANGED <<obj, heap, heap0, obj0, ret, loop, rng, dcall>>

\* one pass of the body of "while not w_ok"
InvertIterate ==
    /\ inv.pc = "loop"
    /\ ~inv.w_ok
    /\ inv.loads < MaxLoads
    /\ LET w == eigh(inv.bufs[inv.mb])
           wmin == w[1]
       IN  IF wmin > 0
           THEN inv' = [inv EXCEPT !.w = w, !.w_ok = TRUE]
           ELSE inv' = [inv EXCEPT !.w = w,
                            !.bufs[inv.mb] = [k \in 1..Len(w) |-> w[k] + LoadAmount(wmin)],
                            !.loads = inv.loads + 1]
    /\ UNCHANGED <<obj, heap, heap0, obj0, ret, loop, rng, dcall>>

\* winv = 1. / w; return v . diag(winv) . v^T
InvertReturn ==
    /\ inv.pc = "loop"
    /\ inv.w_ok
    /\ inv' = [inv EXCEPT !.pc = "done",
                          !.winv = [k \in 1..Len(inv.w) |-> RDiv(One, Rat(inv.w[k]))]]
    /\ UNCHANGED <<obj, heap, heap0, obj0, ret, loop, rng, dcall>>

NextInvert == InvertEnter \/ InvertIterate \/ InvertReturn

SpecInvert == InitInvert /\ [][NextInvert]_vars

\* C6: with exact eigenvalues invert_safe loads the diagonal at most once,
\* after a loading step the minimum eigenvalue is strictly positive, the loop
\* can always go on until it exits, the reciprocal is taken of strictly
\* positive eigenvalues only, and the caller's matrix is not modified.
C6_InvertSafeBounded ==
    inv.pc # "idle" =>
        /\ inv.loads <= 1
        /\ inv.loads = 1 => inv.bufs[inv.mb][1] > 0
        /\ inv.pc = "loop" => ENABLED (InvertIterate \/ InvertReturn)
        /\ inv.pc = "done" =>
              \A k \in 1..Len(inv.w) :
                  /\ inv.w[k] > 0
                  /\ inv.w = inv.bufs[inv.mb]
                  /\ IsFinite(inv.winv[k])
                  /\ RMul(inv.winv[k], Rat(inv.w[k])) = One
        /\ inv.bufs[inv.matrix] = inv.matrix0

C6_Witness ==
    /\ inv.pc = "done"
    /\ inv.loads = 1
    /\ Len(inv.matrix0) = 2
    /\ inv.matrix0[1] = -1
    /\ inv.matrix0[2] > 0

----------------------------------------------------------------------------
(* The decorrelation helpers, dust.py.  The entries of the correlation      *)
(* matrix are held by kind: "nan", "-inf", "neg" (finite, below 0), "zero", *)
(* "pos" (finite, above 0), "+inf", and for a result of exp also "one" and  *)
(* "frac" (strictly between 0 and 1) and "gt1".                             *)

\* np.log(freqs[i] / freqs[j]) for positive frequencies
np_log_ratio(fi, fj) == IF fi = fj THEN "zero" ELSE IF fi > fj THEN "pos" ELSE "neg"

\* log_dep / correlation_length
DivByLength(a, L) ==
    IF L > 0 THEN a
    ELSE IF L < 0 THEN (CASE a = "pos" -> "neg" [] a = "neg" -> "pos" [] OTHER -> a)
    ELSE CASE a = "zero" -> "nan"
           [] a = "pos" -> "+inf"
           [] a = "neg" -> "-inf"
           [] OTHER -> a

\* a ** 2
Square(a) ==
    CASE a \in {"pos", "neg"} -> "pos"
      [] a \in {"+inf", "-inf"} -> "+inf"
      [] OTHER -> a

\* - 0.5 * a
MinusHalf(a) ==
    CASE a = "pos" -> "neg"
      [] a = "neg" -> "pos"
      [] a = "+inf" -> "-inf"
      [] a = "-inf" -> "+inf"
      [] OTHER -> a

np_exp(a) ==
    CASE a = "zero" -> "one"
      [] a = "neg" -> "frac"
      [] a = "-inf" -> "zero"
      [] a = "pos" -> "gt1"
      [] OTHER -> a

frequency_decorr_model(freqs, correlation_length) ==
    [i \in 1..Len(freqs) |-> [j \in 1..Len(freqs) |->
        np_exp(MinusHalf(Square(DivByLength(np_log_ratio(freqs[i], freqs[j]),
                                            correlation_length))))]]

HasNaN(m) == \E i \in 1..Len(m) : \E j \in 1..Len(m[i]) : m[i][j] = "nan"

\* np.where(freqs_all == freq_constrained), 1-based
np_where_eq(freqs_all, freq_constrained) ==
    {k \in 1..Len(freqs_all) : freqs_all[k] = freq_constrained}

\* the outcomes of np.linalg.eigh on a matrix that holds a NaN: LAPACK fails to
\* converge (LinAlgError), or returns NaN eigenvalues, with which the loop of
\* invert_safe never exits
EighOfNaN == {"LinAlgError", "no return"}

\* get_decorrelation_matrix; values beyond the correlation matrix are held by
\* shape.  `how` is the outcome of eigh should the matrix hold a NaN.
get_decorrelation_matrix(freq_constrained, freqs_unconstrained, correlation_length, how) ==
    LET fail(st) == [status |-> st, removed |-> {}, cov_shape |-> <<>>, mean_shape |-> <<>>]
        c == check_freq_input(<<freq_constrained>>)
        n == Len(freqs_unconstrained)
        freqs_all == <<freq_constrained>> \o freqs_unconstrained
        indref == np_where_eq(freqs_all, freq_constrained)
        k == Cardinality(indref)
        corrmatrix == frequency_decorr_model(freqs_all, correlation_length)
        \* rho_inv = invert_safe(corrmatrix)
        rho_inv_shape == <<n + 1, n + 1>>
        \* np.delete(np.delete(rho_inv, indref, axis=0), indref, axis=1), then invert_safe
        rho_uu_shape == <<n + 1 - k, n + 1 - k>>
        \* rho_inv[:, indref], indref a 1-tuple holding an array of k indices
        rho_inv_cu_shape == <<n + 1, 1, k>>
        \* np.transpose(np.array([np.delete(rho_inv_cu, indref)])): flattened, k removed
        rho_inv_cu_col == <<(n + 1) * k - k, 1>>
    IN  IF ~(correlation_length >= 0) THEN fail("AssertionError")
        ELSE IF c.status # "ok" THEN fail(c.status)
        ELSE IF HasNaN(corrmatrix) THEN fail(how)
        ELSE IF rho_uu_shape[1] = 0 THEN fail("ValueError")  \* np.min of an empty w
        ELSE IF rho_uu_shape[2] # rho_inv_cu_col[1] THEN fail("ValueError")  \* np.dot
        ELSE [status |-> "ok", removed |-> indref,
              cov_shape |-> rho_uu_shape,
              mean_shape |-> <<rho_uu_shape[1], rho_inv_cu_col[2]>>]

----------------------------------------------------------------------------
(* DecorrelatedModifiedBlackBody, dust.py *)

\* the attributes the two __init__ bodies assign (lines 45-56, 133) when the
\* parent's parameters hold the values p; how the call at lines 130-132 binds
\* the parent's parameters is DecorrelatedSuperCall below
DecorrelatedInit(p, correlation_length) ==
    LET parent == ModifiedBlackBodyInit(p) IN
    [obj |-> [class |-> "DecorrelatedModifiedBlackBody",
              mbb_index |-> parent.obj.mbb_index,
              mbb_temperature |-> parent.obj.mbb_temperature,
              iqu_ref_freqs |-> parent.obj.iqu_ref_freqs,
              iqu_ref |-> parent.obj.iqu_ref,
              correlation_length |-> correlation_length],
     heap |-> parent.heap]

\* Python values an argument can hold, by type; v is <<kind, number>>
None == [t |-> "None", v |-> <<"None", 0>>]
PyNum(n) == [t |-> "num", v |-> <<"num", n>>]
PyPath(p) == [t |-> "path", v |-> p]
Comm == [t |-> "comm", v |-> <<"comm", 0>>]

\* the parameters of ModifiedBlackBody.__init__ after self, in order; each
\* defaults to None
ModifiedBlackBodyParams ==
    << "map_I", "map_Q", "map_U", "unit_I", "unit_Q", "unit_U", "freq_ref_I",
       "freq_ref_P", "map_mbb_index", "map_mbb_temperature", "nside", "mpi_comm" >>

\* a call f(args...) with positional arguments only: the i-th argument goes
\* to the i-th parameter, the remaining parameters keep their default
BindPositional(params, args) ==
    [name \in {params[i] : i \in DOMAIN params} |->
        LET i == CHOOSE j \in DOMAIN params : params[j] = name
        IN  IF i <= Len(args) THEN args[i] ELSE None]

\* a call with every argument given by keyword
BindByName(params, a) ==
    [name \in {params[i] : i \in DOMAIN params} |->
        IF name \in DOMAIN a THEN a[name] ELSE None]

\* the argument list of the ModifiedBlackBody.__init__ call at lines 130-132
DecorrelatedSuperArgs(a) ==
    << a.map_I, a.map_Q, a.map_U, a.freq_ref_I, a.freq_ref_P, a.map_mbb_index,
       a.map_mbb_temperature, a.nside, a.mpi_comm >>

\* the parent's parameters as that call binds them
DecorrelatedSuperCall(a) ==
    BindPositional(ModifiedBlackBodyParams, DecorrelatedSuperArgs(a))

\* read_map(path, nside): something that is not a path cannot be read; what a
\* path is read into when nside is None is not fixed
ReadMapStep(path, nside, line) ==
    IF path.t # "path" THEN {<<"read_map raises", line>>}
    ELSE IF nside.t # "num" THEN {<<"go", line>>, <<"read_map raises", line>>}
    ELSE {<<"go", line>>}

\* float(x) of a number, or TypeError
FloatStep(x, line) ==
    IF x.t = "num" THEN {<<"go", line>>} ELSE {<<"TypeError", line>>}

\* the statements of ModifiedBlackBody.__init__ that can raise, in order, each
\* with the ways it can end when the parameters hold b
InitSteps(b) ==
    << ReadMapStep(b.map_mbb_index, b.nside, 45),
       ReadMapStep(b.map_mbb_temperature, b.nside, 46),
       FloatStep(b.freq_ref_I, 48),
       FloatStep(b.freq_ref_P, 49),
       FloatStep(b.nside, 52),             \* hp.nside2npix(nside)
       ReadMapStep(b.map_I, b.nside, 54),
       ReadMapStep(b.map_Q, b.nside, 55),
       ReadMapStep(b.map_U, b.nside, 56) >>

\* the ways ModifiedBlackBody.__init__ can end with its parameters bound as b:
\* the first statement that raises, or "ok"
InitOutcomes(b) ==
    LET s == InitSteps(b)
        Goes(i) == \E o \in s[i] : o[1] = "go"
        Reached(i) == \A j \in 1..(i - 1) : Goes(j)
    IN  {o \in UNION {IF Reached(i) THEN s[i] ELSE {} : i \in DOMAIN s} : o[1] # "go"}
        \cup (IF \A i \in DOMAIN s : Goes(i) THEN {<<"ok", 56>>} ELSE {})

\* the parameter record ModifiedBlackBodyInit takes, from well-typed values
Unwrap(b) ==
    [map_I |-> b.map_I.v, map_Q |-> b.map_Q.v, map_U |-> b.map_U.v,
     freq_ref_I |-> b.freq_ref_I.v[2], freq_ref_P |-> b.freq_ref_P.v[2],
     map_mbb_index |-> b.map_mbb_index.v,
     map_mbb_temperature |-> b.map_mbb_temperature.v]

\* the parent state an __init__ that ended as o leaves
ParentState(b, o) ==
    IF o[1] = "ok"
    THEN LET c == ModifiedBlackBodyInit(Unwrap(b))
         IN  [made |-> TRUE, obj |-> c.obj, heap |-> c.heap, nside |-> b.nside]
    ELSE [made |-> FALSE]


\* np.random.randn(n) on the process-wide generator g: the draws and the
\* generator afterwards.  A draw is named by the seed and its position.
randn(g, n) ==
    [z |-> [k \in 1..n |-> <<g.seed, g.pos + k>>],
     g |-> [seed |-> g.seed, pos |-> g.pos + n]]

\* entry i of rho_mean + np.dot(rho_cov, z) for the pair built against ref
DecorrEntry(ref, freqs, correlation_length, z, i) ==
    [ref |-> ref, freqs |-> freqs, L |-> correlation_length, z |-> z, i |-> i]

\* DecorrelatedModifiedBlackBody.get_emission on the instance o with storage
\* h and generator g: the outcome, the returned array, the generator afterwards
DecorrGetEmission(o, h, g, freqs, how) ==
    LET fail(st) == [status |-> st, out |-> Arr(<<>>, <<>>), g |-> g]
        c == check_freq_input(freqs)
        nfreqs == Len(c.freqs)
    IN  IF c.status # "ok" THEN fail(c.status)
        ELSE IF "freq_ref_I" \notin DOMAIN o THEN fail("AttributeError")
        ELSE LET pair_I == get_decorrelation_matrix(o.freq_ref_I, c.freqs,
                                                    o.correlation_length, how)
             IN
             IF pair_I.status # "ok" THEN fail(pair_I.status)
             ELSE IF "freq_ref_P" \notin DOMAIN o THEN fail("AttributeError")
             ELSE LET pair_P == get_decorrelation_matrix(o.freq_ref_P, c.freqs,
                                                         o.correlation_length, how)
                      d1 == randn(g, nfreqs)
                      d2 == randn(d1.g, nfreqs)
                      parent == MBBGetEmission(o, h, c.freqs)
                      decorr == [i \in 1..nfreqs |->
                                   << DecorrEntry(o.freq_ref_I, c.freqs,
                                                  o.correlation_length, d1.z, i),
                                      DecorrEntry(o.freq_ref_P, c.freqs,
                                                  o.correlation_length, d2.z, i),
                                      DecorrEntry(o.freq_ref_P, c.freqs,
                                                  o.correlation_length, d2.z, i) >>]
                  IN
                  IF pair_P.status # "ok" THEN fail(pair_P.status)
                  ELSE IF pair_I.cov_shape[2] # nfreqs THEN fail("ValueError")
                  ELSE [status |-> "ok",
                        out |-> Arr(Broadcast(<<nfreqs, 3, 1>>, parent.out.shape),
                                    [i \in 1..nfreqs |-> [p \in 1..3 |->
                                        [x \in 1..NPix |->
                                            <<decorr[i][p], parent.out.v[i][p][x]>>]]]),
                        g |-> d2.g]

----------------------------------------------------------------------------
(* Calls into the decorrelation code *)

PosFreqLists == {f \in FreqLists : check_freq_input(f).status = "ok"}

Lengths == -1..MaxL

DecorrArgs == {a \in MBBArgs : /\ a.map_mbb_index = <<"ramp", 0>>
                               /\ a.map_mbb_temperature = <<"const", 2>>
                               /\ a.freq_ref_P = 2}

NoEmission == [op |-> "none"]

InitDecorr ==
    /\ \E p \in DecorrArgs : \E L \in 0..MaxL :
          LET c == DecorrelatedInit(p, L) IN obj = c.obj /\ heap = c.heap
    /\ heap0 = heap
    /\ obj0 = obj
    /\ ret = NoCall
    /\ loop = IdleLoop
    /\ inv = IdleInv
    /\ rng = [seed |-> 0, pos |-> 0]
    /\ dcall = [op |-> "none", prev |-> NoEmission]

\* np.random.seed(seed) by the caller
np_random_seed ==
    /\ \E seed \in 0..MaxSeed : rng' = [seed |-> seed, pos |-> 0]
    /\ UNCHANGED <<obj, heap, heap0, obj0, ret, loop, inv, dcall>>

\* the last get_emission call, without the one before it
LastEmission ==
    IF dcall.op = "get_emission"
    THEN [op |-> "get_emission", freqs |-> dcall.freqs, seed |-> dcall.seed,
          status |-> dcall.status, out |-> dcall.out]
    ELSE dcall.prev

Decorrelated_get_emission ==
    /\ \E freqs \in FreqLists : \E how \in EighOfNaN :
          LET r == DecorrGetEmission(obj, heap, rng, freqs, how) IN
          /\ rng' = r.g
          /\ dcall' = [op |-> "get_emission", freqs |-> freqs, seed |-> rng.seed,
                       status |-> r.status, out |-> r.out, prev |-> LastEmission]
    /\ UNCHANGED <<obj, heap, heap0, obj0, ret, loop, inv>>

Call_get_decorrelation_matrix ==
    /\ \E fc \in RefFreqs : \E fu \in PosFreqLists : \E L \in Lengths : \E how \in EighOfNaN :
          dcall' = [op |-> "get_decorrelation_matrix",
                    freq_constrained |-> fc, freqs_unconstrained |-> fu,
                    correlation_length |-> L,
                    result |-> get_decorrelation_matrix(fc, fu, L, how),
                    prev |-> NoEmission]
    /\ UNCHANGED <<obj, heap, heap0, obj0, ret, loop, inv, rng>>

Call_frequency_decorr_model ==
    /\ \E freqs \in PosFreqLists : \E L \in Lengths :
          dcall' = [op |-> "frequency_decorr_model", freqs |-> freqs,
                    correlation_length |-> L,
                    result |-> frequency_decorr_model(freqs, L),
                    prev |-> NoEmission]
    /\ UNCHANGED <<obj, heap, heap0, obj0, ret, loop, inv, rng>>

\* the arguments of a DecorrelatedModifiedBlackBody(...) call
InitArgs ==
    { [map_I |-> PyPath(p.map_I), map_Q |-> PyPath(p.map_Q), map_U |-> PyPath(p.map_U),
       freq_ref_I |-> PyNum(p.freq_ref_I), freq_ref_P |-> PyNum(p.freq_ref_P),
       map_mbb_index |-> PyPath(p.map_mbb_index),
       map_mbb_temperature |-> PyPath(p.map_mbb_temperature),
       nside |-> PyNum(1), mpi_comm |-> c] :
      p \in {q \in MBBArgs : q.map_mbb_index = <<"ramp", 0>>}, c \in {None, Comm} }

\* DecorrelatedModifiedBlackBody(...): the parent's __init__ runs with its
\* parameters bound by the call at lines 130-132; line 133 runs if it returns
Decorrelated_init ==
    /\ \E a \in InitArgs : \E L \in Lengths :
          LET b == DecorrelatedSuperCall(a) IN
          \E o \in InitOutcomes(b) :
              dcall' = [op |-> "__init__", args |-> a, bound |-> b,
                        status |-> o[1], line |-> o[2],
                        parent |-> ParentState(b, o),
                        correlation_length |-> L,
                        prev |-> NoEmission]
    /\ UNCHANGED <<obj, heap, heap0, obj0, ret, loop, inv, rng>>


NextDecorr ==
    \/ Decorrelated_init
    \/ np_random_seed
    \/ Decorrelated_get_emission
    \/ Call_get_decorrelation_matrix
    \/ Call_frequency_decorr_model

SpecDecorr == InitDecorr /\ [][NextDecorr]_vars

C7_OneIndexRemoved ==
    (/\ dcall.op = "get_decorrelation_matrix"
     /\ dcall.correlation_length > 0
     /\ Len(dcall.freqs_unconstrained) >= 1) =>
        LET n == Len(dcall.freqs_unconstrained) IN
        /\ dcall.result.status = "ok"
        /\ dcall.result.removed = {1}
        /\ dcall.result.cov_shape = <<n, n>>
        /\ dcall.result.mean_shape = <<n, 1>>

\* C8: frequency_decorr_model(freqs, 0) is the fully decorrelated matrix:
\* every diagonal entry exactly 1, every entry between distinct frequencies
\* 0, and no undefined entry.
C8_ZeroLengthGuarded ==
    (dcall.op = "frequency_decorr_model" /\ dcall.correlation_length = 0) =>
        \A i \in 1..Len(dcall.freqs) : \A j \in 1..Len(dcall.freqs) :
            /\ i = j => dcall.result[i][j] = "one"
            /\ dcall.freqs[i] # dcall.freqs[j] => dcall.result[i][j] = "zero"
            /\ dcall.result[i][j] # "nan"

C11_ArgumentsByName ==
    dcall.op = "__init__" =>
        LET named == BindByName(ModifiedBlackBodyParams, dcall.args) IN
        /\ dcall.bound = named
        /\ ParentState(named, <<"ok", 56>>) = dcall.parent

====
